---- MODULE Spec2Model ----
(***************************************************************************)
(* A model of the mqpkg package manager core:                              *)
(*   - the transactional state store  (mqpkg/src/pkgdb/mod.rs),             *)
(*   - the repository fetcher and candidate aggregator                     *)
(*     (mqpkg/src/repository.rs),                                          *)
(*   - PackageName parsing (mqpkg/src/lib.rs).                             *)
(* Three specifications share the variables: Spec (the state store, with   *)
(* several Database handles on one identity and one file system),          *)
(* SpecRepo (fetch and candidates) and SpecName (PackageName::from_str).   *)
(***************************************************************************)
EXTENDS Integers, Sequences, FiniteSets, TLC

VARIABLES
    \* ---- the state store ----
    file,         \* content of <fs>/pkgdb/state.yml
    dirExists,    \* whether <fs>/pkgdb is a directory
    lock,         \* holder of the named lock of the database identity
    state,        \* Database.state of each handle: Option<State>
    txn,          \* whether the handle's caller holds a live Transaction
    pc,           \* position of each handle inside commit
    last,         \* history: the call that was made last, and what it returned
    fresh,        \* history: no State access yet in the open transaction
    fileAtBegin,  \* history: the file as it was when the open transaction began
    rt,           \* history: progress of a begin/add/commit/begin/requested run
    lastCommit,   \* history: outcome of the last commit that returned
    \* ---- PackageName parsing ----
    value,        \* the input text
    parsed,       \* the result of from_str(value), once computed
    before,       \* history: the text parsed before this one, and its result
    \* ---- the repository fetcher ----
    repos,        \* the configured repository list
    outcome,      \* what fetching each list entry yields (environment)
    idx,          \* loop position of fetch
    data,         \* Repository.data: IndexMap<config::Repository, RepoData>
    calls,        \* history: list positions at which the callback ran
    attempted,    \* history: list positions whose fetch was attempted
    fetchResult,  \* "running", "ok", "err" or "panic"
    cands         \* what candidates(query) returned, per package name

dbvars   == <<file, dirExists, lock, state, txn, pc, last, fresh,
             fileAtBegin, rt, lastCommit>>
namevars == <<value, parsed, before>>
repovars == <<repos, outcome, idx, data, calls, attempted, fetchResult, cands>>
vars     == <<dbvars, namevars, repovars>>

----------------------------------------------------------------------------
(* Values                                                                  *)

\* Database handles opened on the same identity string and the same fs.
DBs == {"db1", "db2"}
NoOne == "nobody"

\* PackageSpecifier { name, version } values given to add().
PackageSpecifier ==
    { [name |-> "foo", version |-> "^1"],
      [name |-> "foo", version |-> "^2"],
      [name |-> "bar", version |-> "^1"] }

\* An empty HashMap.
EmptyMap == [k \in {} |-> k]

\* HashMap::insert: the value under an existing key is replaced.
HashMap_insert(m, k, v) ==
    [x \in (DOMAIN m) \cup {k} |-> IF x = k THEN v ELSE m[x]]

\* Option<State>: None, and Some(State { requested }).
None == [some |-> FALSE, requested |-> EmptyMap]
Some(req) == [some |-> TRUE, requested |-> req]

\* The state file: absent, a complete document, or a created file whose
\* document was not (completely) written.
FileAbsent == [kind |-> "absent", requested |-> EmptyMap]
FilePartial == [kind |-> "partial", requested |-> EmptyMap]
FileDoc(req) == [kind |-> "doc", requested |-> req]

NoCall == [db |-> NoOne, op |-> "none", err |-> "none", value |-> EmptyMap,
           active |-> FALSE, first |-> FALSE, mutated |-> FALSE,
           wrote |-> FALSE]

NoRt == [db |-> NoOne, phase |-> "none", name |-> "", version |-> ""]

----------------------------------------------------------------------------
(* The transactional state store: pkgdb/mod.rs                             *)

\* serde_yaml::to_writer(file, self): the document holds the key `requested`,
\* a mapping from each package name to its { name, version } request.
to_yaml(st) == [requested |-> st.requested]

\* serde_yaml::from_reader: State { requested } of a complete document.
from_yaml(doc) == [requested |-> doc.requested]

\* State::load: a missing file is the default (empty) State; a file that
\* does not hold a complete document is DBError::InvalidState.
State_load(f) ==
    IF f.kind = "doc"
    THEN [err |-> "none", st |-> Some(from_yaml(f).requested)]
    ELSE IF f.kind = "absent"
         THEN [err |-> "none", st |-> Some(EmptyMap)]
         ELSE [err |-> "InvalidState", st |-> None]

\* TransactionManager::is_active for a manager made from the identity:
\* some Transaction of that identity is open.
TransactionManager_is_active == lock # NoOne

\* TransactionManager::begin obtains the lock only when nobody holds it.
TransactionManager_can_begin == lock = NoOne

\* Database::in_transaction: asks a new manager of the same identity.
in_transaction == TransactionManager_is_active

\* Database::state: loads when inside a transaction and nothing is cached,
\* then hands out whatever is cached, or NoTransaction when nothing is.
Database_state(d) ==
    LET loaded == IF in_transaction /\ ~state[d].some
                  THEN State_load(file)
                  ELSE [err |-> "none", st |-> state[d]]
    IN  IF loaded.err # "none" THEN loaded
        ELSE IF loaded.st.some THEN loaded
             ELSE [err |-> "NoTransaction", st |-> None]

\* The body of add() once state() succeeded: requested.insert(name, request).
AddRequestByVersion(st, pkg) ==
    Some(HashMap_insert(st.requested, pkg.version,
                        [name |-> pkg.name, version |-> pkg.version]))

AddRequest(st, pkg) ==
    Some(HashMap_insert(st.requested, pkg.name,
                        [name |-> pkg.name, version |-> pkg.version]))

\* Dropping a Transaction releases the lock of its identity.
Transaction_drop(d) ==
    /\ lock' = NoOne
    /\ txn' = [txn EXCEPT ![d] = FALSE]
    /\ fresh' = FALSE
    /\ fileAtBegin' = FileAbsent

\* History of the round trip begin, add(pkg), commit, begin, requested() of
\* one handle that starts with no state file and nothing cached.  Any other
\* call, by this handle or another, ends the run.
RtStep(d, ev, pkg) ==
    CASE ev = "begin" /\ rt.phase = "committed" /\ rt.db = d ->
             [rt EXCEPT !.phase = "again"]
      [] ev = "begin" /\ ~(rt.phase = "committed" /\ rt.db = d)
                      /\ file.kind = "absent" /\ ~state[d].some ->
             [db |-> d, phase |-> "begun", name |-> "", version |-> ""]
      [] ev = "add" /\ rt.phase = "begun" /\ rt.db = d ->
             [db |-> d, phase |-> "added",
              name |-> pkg.name, version |-> pkg.version]
      [] ev = "commit" /\ rt.phase = "added" /\ rt.db = d ->
             [rt EXCEPT !.phase = "committed"]
      [] ev = "requested" /\ rt.phase = "again" /\ rt.db = d ->
             [rt EXCEPT !.phase = "read"]
      [] OTHER -> NoRt

\* Database::begin, mutated: the Transaction is handed out although the
\* lock is held.
Database_begin_unlocked(d) ==
    /\ pc[d] = "idle"
    /\ UNCHANGED <<namevars, repovars>>
    /\ ~txn[d]
    /\ lock' = d
    /\ txn' = [txn EXCEPT ![d] = TRUE]
    /\ last' = [NoCall EXCEPT !.db = d, !.op = "begin"]
    /\ fresh' = TRUE
    /\ fileAtBegin' = file
    /\ rt' = RtStep(d, "begin", NoRt)
    /\ UNCHANGED <<file, dirExists, state, pc, lastCommit>>

\* Database::begin when the lock is obtained.
Database_begin(d) ==
    /\ pc[d] = "idle"
    /\ UNCHANGED <<namevars, repovars>>
    /\ ~txn[d]
    /\ TransactionManager_can_begin
    /\ lock' = d
    /\ txn' = [txn EXCEPT ![d] = TRUE]
    /\ last' = [NoCall EXCEPT !.db = d, !.op = "begin"]
    /\ fresh' = TRUE
    /\ fileAtBegin' = file
    /\ rt' = RtStep(d, "begin", NoRt)
    /\ UNCHANGED <<file, dirExists, state, pc, lastCommit>>

\* Database::begin while the lock is held: the call does not return a
\* Transaction (it fails, or has not returned yet).
Database_begin_refused(d) ==
    /\ pc[d] = "idle"
    /\ UNCHANGED <<namevars, repovars>>
    /\ ~txn[d]
    /\ ~TransactionManager_can_begin
    /\ last' = [NoCall EXCEPT !.db = d, !.op = "begin", !.err = "WouldBlock",
                              !.active = TRUE]
    /\ rt' = NoRt
    /\ UNCHANGED <<file, dirExists, lock, state, txn, pc, fresh,
                   fileAtBegin, lastCommit>>

\* What a State-accessing call records about itself.
AccessResult(d, op, acc, val) ==
    [db |-> d, op |-> op, err |-> acc.err, value |-> val,
     active |-> in_transaction,
     first |-> txn[d] /\ fresh,
     mutated |-> FALSE, wrote |-> FALSE]

\* Database::add, mutated: the State is saved by add itself.
Database_add_saving(d, pkg) ==
    LET acc == Database_state(d) IN
    /\ pc[d] = "idle"
    /\ UNCHANGED <<namevars, repovars>>
    /\ IF acc.err = "none"
       THEN /\ state' = [state EXCEPT ![d] = AddRequest(acc.st, pkg)]
            /\ file' = FileDoc(to_yaml(AddRequest(acc.st, pkg)).requested)
            /\ rt' = RtStep(d, "add", pkg)
       ELSE /\ state' = [state EXCEPT ![d] = acc.st]
            /\ file' = file
            /\ rt' = NoRt
    /\ last' = [AccessResult(d, "add", acc, EmptyMap)
                    EXCEPT !.mutated = (state'[d] # state[d]),
                           !.wrote = (file' # file)]
    /\ fresh' = (fresh /\ ~txn[d])
    /\ UNCHANGED <<dirExists, lock, txn, pc, fileAtBegin, lastCommit>>

\* Database::add
Database_add(d, pkg) ==
    LET acc == Database_state(d) IN
    /\ pc[d] = "idle"
    /\ UNCHANGED <<namevars, repovars>>
    /\ UNCHANGED <<file, dirExists, lock, txn, pc, fileAtBegin, lastCommit>>
    /\ IF acc.err = "none"
       THEN /\ state' = [state EXCEPT ![d] = AddRequest(acc.st, pkg)]
            /\ rt' = RtStep(d, "add", pkg)
       ELSE /\ state' = [state EXCEPT ![d] = acc.st]
            /\ rt' = NoRt
    /\ last' = [AccessResult(d, "add", acc, EmptyMap)
                    EXCEPT !.mutated = (state'[d] # state[d]),
                           !.wrote = (file' # file)]
    /\ fresh' = (fresh /\ ~txn[d])

\* Database::requested
Database_requested(d) ==
    LET acc == Database_state(d) IN
    /\ pc[d] = "idle"
    /\ UNCHANGED <<namevars, repovars>>
    /\ UNCHANGED <<file, dirExists, lock, txn, pc, fileAtBegin, lastCommit>>
    /\ state' = [state EXCEPT ![d] = acc.st]
    /\ last' = [AccessResult(d, "requested", acc, acc.st.requested)
                    EXCEPT !.mutated = (state'[d] # state[d]),
                           !.wrote = (file' # file)]
    /\ rt' = IF acc.err = "none" THEN RtStep(d, "requested", NoRt) ELSE NoRt
    /\ fresh' = (fresh /\ ~txn[d])

\* A Transaction that goes out of scope without having been committed.
Database_rollback(d) ==
    /\ pc[d] = "idle"
    /\ UNCHANGED <<namevars, repovars>>
    /\ txn[d]
    /\ Transaction_drop(d)
    /\ last' = [NoCall EXCEPT !.db = d, !.op = "drop"]
    /\ rt' = NoRt
    /\ UNCHANGED <<file, dirExists, state, pc, lastCommit>>

\* commit returning an error: the Transaction it owns is dropped on the way
\* out, and the cached State is left as it is.
CommitFailed(d, err) ==
    /\ Transaction_drop(d)
    /\ pc' = [pc EXCEPT ![d] = "idle"]
    /\ last' = [NoCall EXCEPT !.db = d, !.op = "commit", !.err = err]
    /\ lastCommit' = [status |-> "failed", requested |-> EmptyMap]
    /\ rt' = NoRt

\* A step inside commit that neither returns nor touches the history.
CommitGoesOn(d, at) ==
    /\ pc' = [pc EXCEPT ![d] = at]
    /\ last' = [NoCall EXCEPT !.db = d, !.op = "save"]
    /\ rt' = IF rt.phase = "added" /\ rt.db = d THEN rt ELSE NoRt
    /\ UNCHANGED <<txn, lastCommit, fresh, fileAtBegin>>

\* ensure_dir(pkgdb_path): create the directory unless it is one already.
ensure_dir(ioOk) ==
    IF ioOk THEN [err |-> "none", dir |-> TRUE]
            ELSE [err |-> "Io", dir |-> dirExists]

\* Database::commit, mutated: the Transaction is dropped before the save.
Database_commit_unlocking(d) ==
    LET acc == Database_state(d) IN
    /\ pc[d] = "idle"
    /\ UNCHANGED <<namevars, repovars>>
    /\ txn[d]
    /\ state' = [state EXCEPT ![d] = acc.st]
    /\ IF acc.err # "none"
       THEN /\ CommitFailed(d, acc.err)
            /\ UNCHANGED <<file, dirExists>>
       ELSE \E ioOk \in BOOLEAN :
              /\ dirExists' = ensure_dir(ioOk).dir
              /\ UNCHANGED file
              /\ IF ensure_dir(ioOk).err # "none"
                 THEN CommitFailed(d, "Io")
                 ELSE /\ CommitGoesOn(d, "create_file")
                      /\ lock' = NoOne

\* Database::commit up to the end of ensure_dir: self.state()? and then the
\* first statement of State::save.
Database_commit(d) ==
    LET acc == Database_state(d) IN
    /\ pc[d] = "idle"
    /\ UNCHANGED <<namevars, repovars>>
    /\ txn[d]
    /\ state' = [state EXCEPT ![d] = acc.st]
    /\ IF acc.err # "none"
       THEN /\ CommitFailed(d, acc.err)
            /\ UNCHANGED <<file, dirExists>>
       ELSE \E ioOk \in BOOLEAN :
              /\ dirExists' = ensure_dir(ioOk).dir
              /\ UNCHANGED file
              /\ IF ensure_dir(ioOk).err # "none"
                 THEN CommitFailed(d, "Io")
                 ELSE /\ CommitGoesOn(d, "create_file")
                      /\ UNCHANGED lock

\* State::save, filename.create_file()?: a created file is empty.
State_save_create_file(d) ==
    /\ pc[d] = "create_file"
    /\ UNCHANGED <<namevars, repovars>>
    /\ \E ioOk \in BOOLEAN :
         IF ioOk
         THEN /\ file' = FilePartial
              /\ CommitGoesOn(d, "to_writer")
              /\ UNCHANGED lock
         ELSE /\ CommitFailed(d, "Io")
              /\ UNCHANGED file
    /\ UNCHANGED <<dirExists, state>>

\* State::save, serde_yaml::to_writer(file, self): the document is written
\* into the created file; a failure leaves what was written so far.
State_save_to_writer(d) ==
    /\ pc[d] = "to_writer"
    /\ UNCHANGED <<namevars, repovars>>
    /\ \E ioOk \in BOOLEAN :
         IF ioOk
         THEN /\ file' = FileDoc(to_yaml(state[d]).requested)
              /\ CommitGoesOn(d, "finish")
              /\ UNCHANGED lock
         ELSE /\ file' = FilePartial
              /\ CommitFailed(d, "InvalidState")
    /\ UNCHANGED <<dirExists, state>>

\* Database::commit after save returned Ok: self.state = None; drop(txn).
Database_commit_finish(d) ==
    /\ pc[d] = "finish"
    /\ UNCHANGED <<namevars, repovars>>
    /\ state' = [state EXCEPT ![d] = None]
    /\ Transaction_drop(d)
    /\ pc' = [pc EXCEPT ![d] = "idle"]
    /\ last' = [NoCall EXCEPT !.db = d, !.op = "commit"]
    /\ lastCommit' = [status |-> "ok", requested |-> file.requested]
    /\ rt' = RtStep(d, "commit", NoRt)
    /\ UNCHANGED <<file, dirExists>>

\* Database::new on an empty file system, for every handle.
InitDB ==
    /\ file = FileAbsent
    /\ dirExists = FALSE
    /\ lock = NoOne
    /\ state = [d \in DBs |-> None]
    /\ txn = [d \in DBs |-> FALSE]
    /\ pc = [d \in DBs |-> "idle"]
    /\ last = NoCall
    /\ fresh = FALSE
    /\ fileAtBegin = FileAbsent
    /\ rt = NoRt
    /\ lastCommit = [status |-> "none", requested |-> EmptyMap]

NextDB ==
    \E d \in DBs :
        \/ Database_begin(d)
        \/ Database_begin_refused(d)
        \/ \E pkg \in PackageSpecifier : Database_add(d, pkg)
        \/ Database_requested(d)
        \/ Database_rollback(d)
        \/ Database_commit(d)
        \/ State_save_create_file(d)
        \/ State_save_to_writer(d)
        \/ Database_commit_finish(d)

----------------------------------------------------------------------------
(* PackageName parsing: lib.rs                                             *)

\* Longest input text.
MaxLen == 3

\* Characters are code points: '-', '7', 'A', 'a', 'b' and U+00E9.
Chars == {45, 55, 65, 97, 98, 233}

\* char::is_ascii_alphabetic, char::is_ascii_alphanumeric
is_ascii_alphabetic(c) == c \in 65..90 \/ c \in 97..122
is_ascii_alphanumeric(c) == is_ascii_alphabetic(c) \/ c \in 48..57

\* str::to_ascii_lowercase
to_ascii_lowercase(text) ==
    [i \in 1..Len(text) |->
        IF text[i] \in 65..90 THEN text[i] + 32 ELSE text[i]]

\* str::starts_with(|c| c.is_ascii_alphabetic())
starts_with_alpha(text) == Len(text) > 0 /\ is_ascii_alphabetic(text[1])

NameOk(text) == [kind |-> "Ok", name |-> text, character |-> << >>]
NameErr(kind, text, c) == [kind |-> kind, name |-> text, character |-> c]
TooShort == [kind |-> "TooShort", name |-> << >>, character |-> << >>]
Unparsed == [kind |-> "unparsed", name |-> << >>, character |-> << >>]

\* The loop of from_str, mutated: the name is kept as typed.
check_chars_keeping_case(text, i) ==
    IF \E j \in i..Len(text) : ~is_ascii_alphanumeric(text[j])
    THEN LET j == CHOOSE j \in i..Len(text) :
                     /\ ~is_ascii_alphanumeric(text[j])
                     /\ \A k \in i..(j - 1) : is_ascii_alphanumeric(text[k])
         IN  NameErr("InvalidCharacter", text, <<text[j]>>)
    ELSE NameOk(text)

\* The loop `for c in value.chars()`, from position i on, and the Ok after it.
RECURSIVE check_chars(_, _)
check_chars(text, i) ==
    IF i > Len(text) THEN NameOk(to_ascii_lowercase(text))
    ELSE IF ~is_ascii_alphanumeric(text[i])
         THEN NameErr("InvalidCharacter", text, <<text[i]>>)
         ELSE check_chars(text, i + 1)

\* <PackageName as FromStr>::from_str
from_str(text) ==
    IF ~starts_with_alpha(text)
    THEN IF Len(text) > 0
         THEN NameErr("NoStartingAlpha", text, <<text[1]>>)
         ELSE TooShort
    ELSE check_chars(text, 1)

Texts == UNION {[1..n -> Chars] : n \in 0..MaxLen}

NoBefore == [via |-> "", text |-> << >>, result |-> Unparsed]

InitName == value \in Texts /\ parsed = Unparsed /\ before = NoBefore

InitNameIdle == value = << >> /\ parsed = Unparsed /\ before = NoBefore

\* text.parse::<PackageName>()
Parse ==
    /\ parsed = Unparsed
    /\ parsed' = from_str(value)
    /\ UNCHANGED <<value, before, dbvars, repovars>>

\* The caller lowercases the text it parsed and is about to parse it again.
Lowercase ==
    /\ parsed # Unparsed
    /\ before.via = ""
    /\ value' = to_ascii_lowercase(value)
    /\ parsed' = Unparsed
    /\ before' = [via |-> "lowercase", text |-> value, result |-> parsed]
    /\ UNCHANGED <<dbvars, repovars>>

\* The caller takes the text of the PackageName it got, to parse it again.
TakeName ==
    /\ parsed.kind = "Ok"
    /\ before.via = ""
    /\ value' = parsed.name
    /\ parsed' = Unparsed
    /\ before' = [via |-> "name", text |-> value, result |-> parsed]
    /\ UNCHANGED <<dbvars, repovars>>

NextName == Parse \/ Lowercase \/ TakeName

----------------------------------------------------------------------------
(* The repository fetcher and the candidate aggregator: repository.rs     *)

\* Longest configured repository list.
MaxRepos == 3

\* config::Repository values: one with a file: URL, one with an https: URL.
RepoLocal == [name |-> "local", scheme |-> "file"]
RepoMain == [name |-> "main", scheme |-> "https"]
ConfigRepos == {RepoLocal, RepoMain}

\* RepoData.packages of the documents a repository may serve: package name
\* to version to the dependencies of that release.
NoDeps == EmptyMap
BarDep == [n \in {"bar"} |-> "^1"]
Packages ==
    { EmptyMap,
      [n \in {"foo"} |-> [v \in {"1.0.0"} |-> NoDeps]],
      [n \in {"foo"} |-> [v \in {"1.0.0", "2.0.0"} |->
                             IF v = "2.0.0" THEN BarDep ELSE NoDeps]],
      [n \in {"foo", "bar"} |-> [v \in {"1.0.0"} |-> NoDeps]] }

\* Package names asked of candidates().
Queries == {"foo", "bar", "baz"}

\* What getting the document of a repository yields: the parsed RepoData,
\* an Err that `?` returns, or (file: only) a URL that to_file_path rejects.
Outcomes(repo) ==
    {[kind |-> "ok", packages |-> p] : p \in Packages}
    \cup {[kind |-> "json", packages |-> EmptyMap]}
    \cup IF repo.scheme = "file"
         THEN {[kind |-> "io", packages |-> EmptyMap],
               [kind |-> "no_file_path", packages |-> EmptyMap]}
         ELSE {[kind |-> "http", packages |-> EmptyMap]}

\* The match on repo.url.scheme(): Ok(data), Err(e), or the panic of
\* to_file_path().unwrap().
get_data(repo) ==
    CASE outcome[repo].kind = "ok" -> "ok"
      [] outcome[repo].kind = "no_file_path" -> "panic"
      [] OTHER -> "err"

\* IndexMap::insert: a new key is appended; an existing key keeps its
\* position and gets the new value.
IndexMap_insert(m, k, v) ==
    IF \E i \in 1..Len(m) : m[i].key = k
    THEN [i \in 1..Len(m) |-> IF m[i].key = k THEN [key |-> k, value |-> v]
                                               ELSE m[i]]
    ELSE Append(m, [key |-> k, value |-> v])

\* <RepositorySource as Source>::id
RepositorySource_id == 100

\* Candidate::new(version, RepositorySource::new(idx, repo), deps), mutated:
\* the repositories are counted from one.
NewCandidateFromOne(version, i, repo, deps) ==
    [version |-> version,
     source |-> [id |-> RepositorySource_id, discriminator |-> i + 1,
                 repository |-> repo],
     dependencies |-> deps]

\* Candidate::new(version, RepositorySource::new(idx, repo), deps)
NewCandidate(version, i, repo, deps) ==
    [version |-> version,
     source |-> [id |-> RepositorySource_id, discriminator |-> i,
                 repository |-> repo],
     dependencies |-> deps]

\* The orders in which a HashMap may iterate over its keys.
IterOrders(S) ==
    {f \in [1..Cardinality(S) -> S] :
        \A i, j \in 1..Cardinality(S) : i # j => f[i] # f[j]}

\* The inner loop of candidates for the entry at (zero-based) index i.
CandidatesOfEntry(entry, i, package) ==
    IF package \in DOMAIN entry.value
    THEN {[c \in 1..Len(order) |->
              NewCandidate(order[c], i, entry.key,
                           entry.value[package][order[c]])] :
          order \in IterOrders(DOMAIN entry.value[package])}
    ELSE {<< >>}

\* Repository::candidates: the vectors it may return, built from entry i on.
RECURSIVE candidates_from(_, _)
candidates_from(i, package) ==
    IF i > Len(data) THEN {<< >>}
    ELSE {here \o rest :
            here \in CandidatesOfEntry(data[i], i - 1, package),
            rest \in candidates_from(i + 1, package)}

NoCands == [query |-> "", list |-> << >>]

InitRepo ==
    /\ repos \in UNION {[1..n -> ConfigRepos] : n \in 0..MaxRepos}
    /\ outcome \in {o \in [ConfigRepos -> UNION {Outcomes(r) : r \in ConfigRepos}] :
                      \A r \in ConfigRepos : o[r] \in Outcomes(r)}
    /\ idx = 0
    /\ data = << >>
    /\ calls = << >>
    /\ attempted = << >>
    /\ fetchResult = "running"
    /\ cands = NoCands

InitRepoIdle ==
    /\ repos = << >>
    /\ outcome = [r \in ConfigRepos |-> [kind |-> "ok", packages |-> EmptyMap]]
    /\ idx = 0
    /\ data = << >>
    /\ calls = << >>
    /\ attempted = << >>
    /\ fetchResult = "idle"
    /\ cands = NoCands

\* One turn of the loop of Repository::fetch: get the document, insert it,
\* call back.  An Err or a panic ends fetch, and self with it.
fetch_next ==
    LET repo == repos[idx + 1] IN
    /\ fetchResult = "running"
    /\ idx < Len(repos)
    /\ attempted' = Append(attempted, idx + 1)
    /\ IF get_data(repo) = "ok"
       THEN /\ data' = IndexMap_insert(data, repo, outcome[repo].packages)
            /\ calls' = Append(calls, idx + 1)
            /\ idx' = idx + 1
            /\ UNCHANGED fetchResult
       ELSE /\ fetchResult' = get_data(repo)
            /\ data' = << >>
            /\ UNCHANGED <<calls, idx>>
    /\ UNCHANGED <<repos, outcome, cands, dbvars, namevars>>

\* Repository::fetch after the loop: Ok(self).
fetch_return ==
    /\ fetchResult = "running"
    /\ idx = Len(repos)
    /\ fetchResult' = "ok"
    /\ UNCHANGED <<repos, outcome, idx, data, calls, attempted, cands,
                   dbvars, namevars>>

\* Repository::candidates(package) on the Repository that fetch returned.
candidates(package) ==
    /\ fetchResult = "ok"
    /\ \E list \in candidates_from(1, package) :
          cands' = [query |-> package, list |-> list]
    /\ UNCHANGED <<repos, outcome, idx, data, calls, attempted, fetchResult,
                   dbvars, namevars>>

NextRepo ==
    \/ fetch_next
    \/ fetch_return
    \/ \E package \in Queries : candidates(package)

----------------------------------------------------------------------------
(* Specifications                                                          *)

\* The state store, with nothing parsed and nothing fetched.
Init == InitDB /\ InitNameIdle /\ InitRepoIdle
Spec == Init /\ [][NextDB]_vars

\* PackageName parsing of every text, beside an untouched state store.
InitOfName == InitDB /\ InitName /\ InitRepoIdle
SpecName == InitOfName /\ [][NextName]_vars

\* fetch and candidates for every repository list and every outcome.
InitOfRepo == InitDB /\ InitNameIdle /\ InitRepo
SpecRepo == InitOfRepo /\ [][NextRepo]_vars

----------------------------------------------------------------------------
(* Properties of the state store                                           *)

\* The requested map that holds exactly one request.
OnlyRequest(name, version) ==
    [n \in {name} |-> [name |-> name, version |-> version]]

\* C1: from no state file and nothing cached, begin, add(pkg), commit leaves
\* a file that State::load reads without error as exactly pkg, and the
\* requested() of the next transaction of that handle returns exactly pkg,
\* keyed by its name and carrying its version.
C1_RoundTrip ==
    /\ rt.phase = "committed" =>
          /\ State_load(file).err = "none"
          /\ State_load(file).st.requested = OnlyRequest(rt.name, rt.version)
    /\ rt.phase = "read" =>
          /\ last.op = "requested" /\ last.err = "none"
          /\ last.value = OnlyRequest(rt.name, rt.version)

C1_Witness == rt.phase = "read" /\ last.first

\* C2: while a transaction is open and not committing, the state file is
\* what it was at begin, whatever was added; and the drop of an uncommitted
\* transaction leaves the file as it was at begin and the lock free, so
\* that begin is possible at once.
C2_Rollback ==
    /\ [](\A d \in DBs : (txn[d] /\ pc[d] = "idle") => file = fileAtBegin)
    /\ [][\A d \in DBs :
            (txn[d] /\ last'.op = "drop" /\ last'.db = d) =>
                /\ file' = fileAtBegin
                /\ lock' = NoOne
                /\ pc'[d] = "idle" /\ ~txn'[d]]_vars

C2_Witness ==
    /\ last.op = "drop"
    /\ state[last.db].some
    /\ state[last.db].requested # State_load(file).st.requested
    /\ lock = NoOne

\* C3: at most one handle holds an open Transaction, that handle holds the
\* lock, and a begin made while a Transaction is open returns none.
C3_MutualExclusion ==
    /\ Cardinality({d \in DBs : txn[d]}) <= 1
    /\ \A d \in DBs : txn[d] => lock = d
    /\ (last.op = "begin" /\ last.err # "none") =>
          (~txn[last.db] /\ \E e \in DBs \ {last.db} : txn[e] \/ pc[e] # "idle")

C3_Witness ==
    /\ last.op = "begin" /\ last.err = "WouldBlock"
    /\ \E e \in DBs \ {last.db} : txn[e]

\* C4: an add or requested made while no transaction is active returns
\* NoTransaction and changes neither the cached State nor the file.
C4_NoTransaction ==
    (last.op \in {"add", "requested"} /\ ~last.active) =>
        (last.err = "NoTransaction" /\ ~last.mutated /\ ~last.wrote)

\* C5: when a transaction has ended, by a commit that returned Ok or by a
\* drop, the handle caches no State; and the first requested() of a
\* transaction returns what the file holds.
C5_Discarded ==
    /\ (last.op = "drop" \/ (last.op = "commit" /\ last.err = "none")) =>
          ~state[last.db].some
    /\ (last.op = "requested" /\ last.first /\ last.err = "none") =>
          last.value = State_load(file).st.requested

\* C6: a commit that returns an error leaves the lock free and the state
\* file with the content it had before the commit.
C6_FailedCommit ==
    [][\A d \in DBs :
         (txn[d] /\ last'.op = "commit" /\ last'.db = d /\ last'.err # "none")
            => (lock' = NoOne /\ file' = fileAtBegin)]_vars

\* C10: while a commit is creating or writing the file, or has written it
\* and not yet returned, the committing handle holds the lock and the pkgdb
\* directory exists; and in a transaction open after a successful commit,
\* State::load returns the content that commit wrote.
C10_WriteBeforeRelease ==
    /\ \A d \in DBs :
          pc[d] \in {"create_file", "to_writer", "finish"} =>
              (lock = d /\ txn[d] /\ dirExists)
    /\ \A d \in DBs :
          (txn[d] /\ pc[d] = "idle" /\ lastCommit.status = "ok") =>
              State_load(file) =
                  [err |-> "none", st |-> Some(lastCommit.requested)]

C10_Witness ==
    /\ lastCommit.status = "ok" /\ lastCommit.requested # EmptyMap
    /\ last.op = "requested" /\ last.first /\ last.mutated
    /\ txn[last.db]
    /\ last.value = lastCommit.requested

----------------------------------------------------------------------------
(* Properties of PackageName parsing                                       *)

Letters == (65..90) \cup (97..122)
Digits == 48..57

\* The reference: what parsing a text is to return.
ReferenceParse(text) ==
    LET bad == {i \in 1..Len(text) : text[i] \notin Letters \cup Digits} IN
    IF Len(text) = 0
    THEN [kind |-> "TooShort", name |-> << >>, character |-> << >>]
    ELSE IF text[1] \notin Letters
    THEN [kind |-> "NoStartingAlpha", name |-> text,
          character |-> <<text[1]>>]
    ELSE IF bad # {}
    THEN [kind |-> "InvalidCharacter", name |-> text,
          character |-> <<text[CHOOSE i \in bad : \A j \in bad : i <= j]>>]
    ELSE [kind |-> "Ok",
          name |-> [i \in 1..Len(text) |->
                       IF text[i] \in 65..90 THEN text[i] + 32 ELSE text[i]],
          character |-> << >>]

\* C9: every parse returns what the reference returns; and when a text that
\* parsed to a name is lowercased, or replaced by the text of that name,
\* parsing it again returns the same name.
C9_ParseIsReference ==
    parsed # Unparsed =>
        /\ parsed = ReferenceParse(value)
        /\ before.result.kind = "Ok" => parsed = before.result

C9_Witness ==
    /\ parsed.kind = "Ok"
    /\ before.via = "lowercase"
    /\ before.text # value
    /\ before.result = parsed
    /\ Len(value) = MaxLen

----------------------------------------------------------------------------
(* Properties of fetch and candidates                                      *)

Upto(n) == [i \in 1..n |-> i]

\* The repository at list position i is stored with the document it served.
Stored(i) ==
    \E e \in 1..Len(data) :
        data[e] = [key |-> repos[i], value |-> outcome[repos[i]].packages]

\* What fetch does apart from how it ends on a failure: the list is worked
\* through in order, the callback runs once for each repository fetched and
\* stored, nothing is fetched after a failure, and a failure leaves no
\* Repository value.
FetchInOrder ==
    LET k == Len(attempted) IN
    /\ attempted = Upto(k)
    /\ fetchResult \in {"running", "ok"} =>
          (calls = Upto(k) /\ idx = k /\ \A i \in 1..k : Stored(i))
    /\ fetchResult = "ok" => k = Len(repos)
    /\ fetchResult \in {"err", "panic"} =>
          (calls = Upto(k - 1) /\ data = << >> /\ cands = NoCands
           /\ outcome[repos[k]].kind # "ok")

\* C7: fetch works through the list in order with one callback per fetched
\* repository, and a repository whose fetch or parse fails ends it: nothing
\* later is fetched, the callback ran for the repositories before it only,
\* and fetch returns an error and no Repository value.
C7_FetchAborts ==
    /\ FetchInOrder
    /\ fetchResult \in {"idle", "running", "ok", "err"}

\* The first list position of a repository, and the number of different
\* repositories listed before it.
FirstPos(r) ==
    CHOOSE i \in 1..Len(repos) :
        repos[i] = r /\ \A j \in 1..(i - 1) : repos[j] # r
Rank(r) == Cardinality({repos[j] : j \in 1..(FirstPos(r) - 1)})

\* The versions of a package in the document a repository serves.
VersionsOf(r, package) ==
    IF outcome[r].kind = "ok" /\ package \in DOMAIN outcome[r].packages
    THEN DOMAIN outcome[r].packages[package]
    ELSE {}

\* One candidate for each (repository, version) that lists the package and
\* no other; repositories in list order; every Source of kind 100.
CandidatesCover ==
    LET L == cands.list
        q == cands.query
    IN
    /\ \A i \in 1..Len(repos) : \A v \in VersionsOf(repos[i], q) :
          Cardinality({c \in 1..Len(L) :
                          /\ L[c].source.repository = repos[i]
                          /\ L[c].version = v}) = 1
    /\ \A c \in 1..Len(L) :
          /\ \E i \in 1..Len(repos) : L[c].source.repository = repos[i]
          /\ L[c].version \in VersionsOf(L[c].source.repository, q)
          /\ L[c].source.id = 100
    /\ \A c1, c2 \in 1..Len(L) :
          (c1 < c2 /\ L[c1].source.repository # L[c2].source.repository) =>
              FirstPos(L[c1].source.repository)
                  < FirstPos(L[c2].source.repository)

\* C8 as stated: candidates() covers the listed (repository, version)
\* pairs in list order, and each discriminator is the (zero-based) list
\* position of the candidate's repository.
C8_DiscriminatorIsListPosition ==
    cands.query # "" =>
        /\ CandidatesCover
        /\ \A c \in 1..Len(cands.list) :
              LET at == cands.list[c].source.discriminator + 1 IN
              /\ at \in 1..Len(repos)
              /\ repos[at] = cands.list[c].source.repository

\* C8 as amended: candidates() covers the listed (repository, version)
\* pairs in list order, and each discriminator is the number of different
\* repositories listed before the candidate's repository.
C8_DiscriminatorIsRank ==
    cands.query # "" =>
        /\ CandidatesCover
        /\ \A c \in 1..Len(cands.list) :
              cands.list[c].source.discriminator
                  = Rank(cands.list[c].source.repository)

C8_Witness ==
    /\ cands.query # ""
    /\ Len(data) < Len(repos)
    /\ \E c \in 1..Len(cands.list) :
          /\ cands.list[c].source.discriminator = 1
          /\ repos[2] # cands.list[c].source.repository
    /\ \E c \in 1..Len(cands.list) : cands.list[c].source.discriminator = 0

====
